---- MODULE Spec2Model ----
(***************************************************************************)
(* RINEX3 observation file name validation (package rinex):                *)
(*   src/src/rinex/validate.py         the character-set check, the eight  *)
(*                                     field predicates, the country table *)
(*   src/src/rinex/observationfile.py  Field slicing and                   *)
(*                                     ObservationFile.is_valid            *)
(*                                                                         *)
(* A Python str is modelled as a sequence of characters, a character as a  *)
(* one-character string.  The token ARABIC_INDIC_3 stands for the single   *)
(* character U+0663, a decimal digit outside ASCII.  Python's True, False  *)
(* and None are the strings "True", "False" and "None"; a call that raises *)
(* yields the name of the exception.                                       *)
(***************************************************************************)
EXTENDS Integers, Sequences, FiniteSets, TLC

VARIABLES
    COUNTRY_CODES,  \* validate.COUNTRY_CODES: "None" or the loaded list
    writes,         \* number of assignments made to COUNTRY_CODES
    fname,          \* ObservationFile._fname
    pc,             \* position of the caller / of is_valid's conjunction
    evaluated,      \* the conjuncts of is_valid evaluated so far, with outcomes
    result,         \* what is_valid gave its caller: a value or an exception
    got,            \* the last field read by the caller, with its value
    call,           \* a direct call of a function of validate.py
    threads         \* concurrent callers of name_is_valid

vars == <<COUNTRY_CODES, writes, fname, pc, evaluated, result, got, call, threads>>

----------------------------------------------------------------------------
(* Characters: string.ascii_uppercase, string.ascii_lowercase, string.digits *)

ascii_uppercase ==
    {"A","B","C","D","E","F","G","H","I","J","K","L","M",
     "N","O","P","Q","R","S","T","U","V","W","X","Y","Z"}

ascii_lowercase ==
    {"a","b","c","d","e","f","g","h","i","j","k","l","m",
     "n","o","p","q","r","s","t","u","v","w","x","y","z"}

digits == {"0","1","2","3","4","5","6","7","8","9"}

ARABIC_INDIC_3 == "U+0663"

\* The characters for which str.isdecimal() holds: int(c) and the regular
\* expression class \d of a str pattern accept exactly these.
UnicodeDecimals == digits \cup {ARABIC_INDIC_3}

DigitValue(c) ==
    CASE c = "0" -> 0 [] c = "1" -> 1 [] c = "2" -> 2 [] c = "3" -> 3
      [] c = "4" -> 4 [] c = "5" -> 5 [] c = "6" -> 6 [] c = "7" -> 7
      [] c = "8" -> 8 [] c = "9" -> 9 [] c = ARABIC_INDIC_3 -> 3

\* int(s) raises ValueError unless s, a str of one character, is a decimal digit.
IntRaises(s) == ~(Len(s) = 1 /\ s[1] \in UnicodeDecimals)

----------------------------------------------------------------------------
(* Python str operations *)

Min(a, b) == IF a < b THEN a ELSE b

\* s[beg:end] for 0 <= beg, 0 <= end: the indices are clamped to len(s).
PySlice(s, beg, end) == SubSeq(s, Min(beg, Len(s)) + 1, Min(end, Len(s)))

\* set(s)
CharSet(s) == {s[i] : i \in 1..Len(s)}

\* The 1-based position of the first sep in s, 0 when there is none.
Find(s, sep) ==
    IF \E i \in 1..Len(s) : s[i] = sep
    THEN CHOOSE i \in 1..Len(s) : s[i] = sep /\ \A j \in 1..(i - 1) : s[j] # sep
    ELSE 0

\* s.split(sep, maxsplit=1): a list of one or of two strings.
Split1(s, sep) ==
    LET i == Find(s, sep)
    IN  IF i = 0 THEN <<s>>
        ELSE <<SubSeq(s, 1, i - 1), SubSeq(s, i + 1, Len(s))>>

\* pathlib.Path(s).name: the last component of s that is neither empty nor
\* ".", and "" when s has no such component.
RECURSIVE PathName(_)
PathName(s) ==
    LET i == Find(s, "/")
    IN  IF i = 0 THEN (IF s = <<".">> THEN <<>> ELSE s)
        ELSE LET head == SubSeq(s, 1, i - 1)
                 rest == PathName(SubSeq(s, i + 1, Len(s)))
             IN  IF rest # <<>> THEN rest
                 ELSE IF head = <<".">> THEN <<>> ELSE head

----------------------------------------------------------------------------
(* validate.py: the character-set check *)

FILENAME_CHARACTERS == ascii_uppercase \cup digits \cup {"_"}

EXTENSION_CHARACTERS == ascii_lowercase \cup {"."}

\* has_valid_characters(s): "True", "False", or "ValueError" when unpacking
\* the list split() returns into (basename, ext) finds one element only.
has_valid_characters(s) ==
    LET parts == Split1(PathName(s), ".")
    IN  IF Len(parts) # 2 THEN "ValueError"
        ELSE LET basename_set == CharSet(parts[1])
                 ext_set == CharSet(parts[2])
             IN  IF ~(basename_set \cap FILENAME_CHARACTERS = basename_set)
                 THEN "False"
                 ELSE IF ~(ext_set \cap EXTENSION_CHARACTERS = ext_set)
                 THEN "False"
                 ELSE "True"

----------------------------------------------------------------------------
(* validate.py: the country-code table *)

\* The lines of the bundled resource ISO_3166-1_alpha-3.dat, as
\* fsock.read().splitlines() returns them.
ISO_3166_1_alpha_3 ==
    << <<"C","A","N">>, <<"D","N","K">>, <<"U","S","A">> >>

\* x in lst, for a list lst
InList(x, lst) == \E i \in 1..Len(lst) : lst[i] = x

\* The guard of load_country_codes: the file is read when this holds.
MustLoad(codes) == codes = "None"

\* load_country_codes() run without interruption, from the table `codes`:
\* the table after the call, which is also the value returned.
load_country_codes(codes) ==
    IF MustLoad(codes) THEN ISO_3166_1_alpha_3 ELSE codes

----------------------------------------------------------------------------
(* validate.py: the eight field predicates, "True" or "False" *)

Bool(b) == IF b THEN "True" ELSE "False"

\* name_is_valid reaches `CCC not in load_country_codes()` when this holds.
NameReachesCountry(s) ==
    /\ Len(s) = 9
    /\ ~IntRaises(PySlice(s, 4, 5))
    /\ ~IntRaises(PySlice(s, 5, 6))

\* name_is_valid(s), load_country_codes() returning `codes` if it is called.
name_is_valid(s, codes) ==
    IF Len(s) # 9 THEN "False"
    ELSE IF IntRaises(PySlice(s, 4, 5)) THEN "False"
    ELSE IF IntRaises(PySlice(s, 5, 6)) THEN "False"
    ELSE IF ~InList(PySlice(s, 6, 9), codes) THEN "False"
    ELSE "True"

receiver_is_valid(s) ==
    IF Len(s) # 1 THEN "False"
    ELSE Bool(s \in {<<"R">>, <<"S">>, <<"U">>})

\* The alternatives of _strptime's regular expressions that span the whole
\* width of %j, %H and %M; \d is any decimal digit, a bracket class is ASCII.
Match_j(c) ==
    \/ c[1] = "3" /\ c[2] = "6" /\ c[3] \in {"0","1","2","3","4","5","6"}
    \/ c[1] = "3" /\ c[2] \in {"0","1","2","3","4","5"} /\ c[3] \in UnicodeDecimals
    \/ c[1] \in {"1","2"} /\ c[2] \in UnicodeDecimals /\ c[3] \in UnicodeDecimals
    \/ c[1] = "0" /\ c[2] \in (digits \ {"0"}) /\ c[3] \in UnicodeDecimals
    \/ c[1] = "0" /\ c[2] = "0" /\ c[3] \in (digits \ {"0"})

Match_H(c) ==
    \/ c[1] = "2" /\ c[2] \in {"0","1","2","3"}
    \/ c[1] \in {"0","1"} /\ c[2] \in UnicodeDecimals

Match_M(c) == c[1] \in {"0","1","2","3","4","5"} /\ c[2] \in UnicodeDecimals

\* int(s) of a str of decimal digits
RECURSIVE IntOf(_)
IntOf(s) ==
    IF s = <<>> THEN 0
    ELSE 10 * IntOf(SubSeq(s, 1, Len(s) - 1)) + DigitValue(s[Len(s)])

\* datetime.strptime(s, '%Y%j%H%M') raises for a str s of 11 characters: the
\* pattern must match all of s, so every directive takes its full width; the
\* date is then built from year and day of year, within years 1..9999.
StrptimeRaises(s) ==
    LET Y == SubSeq(s, 1, 4)
        j == SubSeq(s, 5, 7)
    IN  \/ \E i \in 1..4 : Y[i] \notin UnicodeDecimals
        \/ ~Match_j(j)
        \/ ~Match_H(SubSeq(s, 8, 9))
        \/ ~Match_M(SubSeq(s, 10, 11))
        \/ IntOf(Y) = 0
        \/ IntOf(Y) = 9999 /\ IntOf(j) = 366

start_time_is_valid(s) ==
    IF Len(s) # 11 THEN "False"
    ELSE IF StrptimeRaises(s) THEN "False"
    ELSE "True"

FILE_PERIOD_UNITS_ALLOWED == <<"M", "H", "D", "Y", "U">>

\* [int(d) for d in DD] raises
DigitsRaise(DD) == \E i \in 1..Len(DD) : IntRaises(<<DD[i]>>)

\* U in units, for a str U of at most one character and a tuple of
\* one-character strings
InUnits(U, units) == \E i \in 1..Len(units) : U = <<units[i]>>

file_period_is_valid(s) ==
    IF Len(s) # 3 THEN "False"
    ELSE IF DigitsRaise(PySlice(s, 0, 2)) THEN "False"
    ELSE Bool(InUnits(SubSeq(s, Len(s), Len(s)), FILE_PERIOD_UNITS_ALLOWED))

DATA_FREQ_UNITS_ALLOWED == <<"C", "Z", "S", "M", "H", "D", "U">>

data_freq_is_valid(s) ==
    IF Len(s) # 3 THEN "False"
    ELSE IF DigitsRaise(PySlice(s, 0, 2)) THEN "False"
    ELSE Bool(InUnits(SubSeq(s, Len(s), Len(s)), DATA_FREQ_UNITS_ALLOWED))

\* The tuple of codes with one entry lost
CODES_WITHOUT_IO ==
    << <<"G","O">>, <<"R","O">>, <<"E","O">>, <<"J","O">>,
       <<"C","O">>, <<"S","O">>, <<"M","O">> >>

DATA_TYPE_VALID_OBSERVATION_CODES ==
    << <<"G","O">>, <<"R","O">>, <<"E","O">>, <<"J","O">>,
       <<"C","O">>, <<"I","O">>, <<"S","O">>, <<"M","O">> >>

data_type_is_valid(s) ==
    IF Len(s) # 2 THEN "False"
    ELSE Bool(InList(s, DATA_TYPE_VALID_OBSERVATION_CODES))

format_is_valid(s) == Bool(Len(s) = 3)

COMPRESSION_EXTENSIONS_ALLOWED ==
    << <<"g","z">>, <<"b","z","2">>, <<"z","i","p">> >>

compression_is_valid(s) ==
    IF Len(s) = 0 THEN "True"
    ELSE Bool(InList(s, COMPRESSION_EXTENSIONS_ALLOWED))

----------------------------------------------------------------------------
(* observationfile.py: Field and ObservationFile *)

\* The class attributes of ObservationFile: Field(beg, end) of each field.
Field ==
    [ name        |-> <<0, 9>>,
      receiver    |-> <<10, 11>>,
      start_time  |-> <<12, 23>>,
      file_period |-> <<24, 27>>,
      data_freq   |-> <<28, 31>>,
      data_type   |-> <<32, 34>>,
      format_     |-> <<35, 38>>,
      compression |-> <<39, 42>> ]

FieldNames == DOMAIN Field

\* The slice taken with 1-based offsets
Field__get__OneBased(f, k) == PySlice(f, Field[k][1] + 1, Field[k][2] + 1)

\* Field.__get__: instance._fname[self._slice]
Field__get__(f, k) == PySlice(f, Field[k][1], Field[k][2])

\* The conjunction without format_is_valid(self.format_)
ConjunctsWithoutFormat ==
    << "has_valid_characters", "name", "receiver", "start_time",
       "file_period", "data_freq", "data_type", "compression" >>

\* The operands of the conjunction in is_valid after the leading True, in
\* the order written.
Conjuncts ==
    << "has_valid_characters", "name", "receiver", "start_time",
       "file_period", "data_freq", "data_type", "format_", "compression" >>

ConjunctNames == {Conjuncts[i] : i \in 1..Len(Conjuncts)}

IndexOf(k) == CHOOSE i \in 1..Len(Conjuncts) : Conjuncts[i] = k

\* name_is_valid(self.name) calls load_country_codes() when this holds.
CallsLoad(k, f) == k = "name" /\ NameReachesCountry(Field__get__(f, "name"))

\* The value of the operand k of the conjunction for the file name f, with
\* `codes` what load_country_codes() returns if the operand calls it.
Operand(k, f, codes) ==
    CASE k = "has_valid_characters" -> has_valid_characters(f)
      [] k = "name"        -> name_is_valid(Field__get__(f, k), codes)
      [] k = "receiver"    -> receiver_is_valid(Field__get__(f, k))
      [] k = "start_time"  -> start_time_is_valid(Field__get__(f, k))
      [] k = "file_period" -> file_period_is_valid(Field__get__(f, k))
      [] k = "data_freq"   -> data_freq_is_valid(Field__get__(f, k))
      [] k = "data_type"   -> data_type_is_valid(Field__get__(f, k))
      [] k = "format_"     -> format_is_valid(Field__get__(f, k))
      [] k = "compression" -> compression_is_valid(Field__get__(f, k))

\* A conjunction that evaluates every operand (`&` in place of `and`)
GoesOnAlways(out) == TRUE

\* Python's `and`: the conjunction goes on to its next operand only when
\* this one is true.
GoesOn(out) == out = "True"

\* ObservationFile(f).is_valid() as one call, from operand i on: the value
\* returned, or the exception raised.
RECURSIVE is_valid_from(_, _, _)
is_valid_from(i, f, codes) ==
    LET out == Operand(Conjuncts[i], f, load_country_codes(codes))
    IN  IF GoesOn(out) /\ i < Len(Conjuncts)
        THEN is_valid_from(i + 1, f, codes)
        ELSE out

is_valid(f, codes) == is_valid_from(1, f, codes)

----------------------------------------------------------------------------
(* File names given to ObservationFile *)

MaxLen == 3

ShortAlphabet == {"A", "a", "0", "_", ".", "/"}

\* Every str over ShortAlphabet of at most MaxLen characters
ShortNames == UNION {[1..n -> ShortAlphabet] : n \in 0..MaxLen}

Station == <<"A","L","G","O","0","0","C","A","N","_","R","_",
             "2","0","1","2","1","6","0","1","0","0","0","_">>

\* 'ALGO00CAN_R_20121601000_' + P + '_' + F + '_' + T + '.rnx'
Rnx(P, F, T) == Station \o P \o <<"_">> \o F \o <<"_">> \o T \o <<".","r","n","x">>

Exemplars ==
    { Rnx(<<"0","1","H">>, <<"0","1","S">>, <<"M","O">>),
      Rnx(<<"1","5","M">>, <<"0","1","S">>, <<"G","O">>),
      Rnx(<<"0","1","H">>, <<"0","5","Z">>, <<"M","O">>),
      Rnx(<<"0","1","D">>, <<"3","0","S">>, <<"G","O">>),
      Rnx(<<"0","1","D">>, <<"3","0","S">>, <<"M","O">>) }

TwoDigits == {<<a, b>> : a \in {"0","1","2","3","4","5","6","7","8","9"},
                         b \in {"0","1","2","3","4","5","6","7","8","9"}}

AllPeriods == {dd \o <<u>> : dd \in TwoDigits, u \in {"M","H","D","Y","U"}}

AllFreqs == {dd \o <<u>> : dd \in TwoDigits, u \in {"C","Z","S","M","H","D","U"}}

AllTypes == {<<g, "O">> : g \in {"G","R","E","J","C","I","S","M"}}

SomePeriods == {<<"0","1","H">>, <<"1","5","M">>, <<"0","1","D">>}

SomeFreqs == {<<"0","1","S">>, <<"0","5","Z">>, <<"3","0","S">>}

\* Names of the layout of the exemplars: each of the three fields runs over
\* all its values with the other two at the values of the exemplars.
LayoutNames ==
    {Rnx(P, F, T) : P \in AllPeriods, F \in SomeFreqs, T \in {<<"M","O">>, <<"G","O">>}}
    \cup {Rnx(P, F, T) : P \in SomePeriods, F \in AllFreqs, T \in {<<"M","O">>, <<"G","O">>}}
    \cup {Rnx(P, F, T) : P \in SomePeriods, F \in SomeFreqs, T \in AllTypes}

Suffixes ==
    { <<".","g","z">>, <<".","b","z","2">>, <<".","z","i","p">>,
      <<".","r","a","r">>, <<".","Z">>, <<"_","g","z">> }

CompressedNames == {e \o x : e \in Exemplars, x \in Suffixes}

Exemplar1 == Rnx(<<"0","1","H">>, <<"0","1","S">>, <<"M","O">>)

\* Every prefix of 'ALGO00CAN_R_20121601000_01H_01S_MO.rnx.gz'
TruncatedNames ==
    LET e == Exemplar1 \o <<".","g","z">>
    IN  {SubSeq(e, 1, n) : n \in 0..Len(e)}

\* The same name with one character replaced
SubstitutedNames ==
    LET e == Exemplar1 \o <<".","g","z">>
    IN  {[e EXCEPT ![i] = c] : i \in 1..Len(e), c \in {"A", "R", "a", "0", "9", "_", "."}}

Dirs == {<<"/">>, <<"D","/">>, <<".","/">>, <<"d",".","d","/">>}

PathNames == {d \o e : d \in Dirs, e \in Exemplars \cup {<<"A",".","a">>, <<"A">>}}

\* Names of the layout with other characters where the separators stand:
\* 'ALGO00CAN_R_20121601000_01H_01S_MO_RNX.gz' and
\* 'ALGO00CANXRX20121601000X01HX01SXMOXRNX.gz'
UnseparatedNames ==
    { SubSeq(Exemplar1, 1, 34) \o <<"_","R","N","X",".","g","z">>,
      [i \in 1..41 |->
          IF i \in {10, 12, 24, 28, 32, 35} THEN "X"
          ELSE (SubSeq(Exemplar1, 1, 34) \o <<"_","R","N","X",".","g","z">>)[i]] }

Filenames ==
    ShortNames \cup LayoutNames \cup CompressedNames \cup TruncatedNames
    \cup SubstitutedNames \cup PathNames \cup UnseparatedNames

----------------------------------------------------------------------------
(* One caller of an ObservationFile: it reads fields, or calls is_valid *)

NoField == [field |-> "None", raised |-> "None", value |-> <<>>]

NoCall == [fn |-> "None", s |-> <<>>]

Init ==
    /\ COUNTRY_CODES = "None"
    /\ writes = 0
    /\ fname \in Filenames
    /\ pc = "new"
    /\ evaluated = <<>>
    /\ result = "None"
    /\ got = NoField
    /\ call = NoCall
    /\ threads = <<>>

\* getattr(obsfile, k): slicing a str raises nothing.
GetField(k) ==
    /\ pc \in {"new", "fields"}
    /\ got' = [field |-> k, raised |-> "None", value |-> Field__get__(fname, k)]
    /\ pc' = "fields"
    /\ UNCHANGED <<COUNTRY_CODES, writes, fname, evaluated, result, call, threads>>

\* obsfile.is_valid() is entered: its first operand is next.
Enter_is_valid ==
    /\ pc = "new"
    /\ pc' = Conjuncts[1]
    /\ UNCHANGED <<COUNTRY_CODES, writes, fname, evaluated, result, got, call, threads>>

\* The operand at pc is evaluated: the conjunction goes on to the next one,
\* returns, or the exception of the operand leaves is_valid.
Evaluate ==
    /\ pc \in ConjunctNames
    /\ LET loads == CallsLoad(pc, fname)
           codes == IF loads THEN load_country_codes(COUNTRY_CODES) ELSE COUNTRY_CODES
           out   == Operand(pc, fname, codes)
           i     == IndexOf(pc)
       IN  /\ COUNTRY_CODES' = codes
           /\ writes' = IF loads /\ MustLoad(COUNTRY_CODES) THEN writes + 1 ELSE writes
           /\ evaluated' = Append(evaluated, <<pc, out>>)
           /\ IF out \notin {"True", "False"}
              THEN pc' = "raised" /\ result' = out
              ELSE IF GoesOn(out) /\ i < Len(Conjuncts)
              THEN pc' = Conjuncts[i + 1] /\ result' = result
              ELSE pc' = "returned" /\ result' = out
    /\ UNCHANGED <<fname, got, call, threads>>

Next ==
    \/ \E k \in FieldNames : GetField(k)
    \/ Enter_is_valid
    \/ Evaluate

Spec == Init /\ [][Next]_vars

----------------------------------------------------------------------------
(* Direct calls of the functions of validate.py, one call per behaviour *)

MaxArgLen == 3

ArgAlphabet == {"0", "1", ARABIC_INDIC_3, "-", ".", "M", "H", "a", "_", "/"}

Args ==
    UNION {[1..n -> ArgAlphabet] : n \in 0..MaxArgLen}
    \cup {Field__get__(e, k) : e \in Exemplars, k \in FieldNames}
    \cup { <<"0","0","1","C">>, <<"A","L","G","O","0","0","X","X","X">>,
           <<"A","L","G","O","X","0","C","A","N">>,
           <<"2","0","1","2","4","0","0","1","0","0","0">>,
           <<"g","z">>, <<".","g","z">>, <<"b","z","2">>, <<"r","a","r">>,
           <<"c","r","x">> }

Functions ==
    { "has_valid_characters", "name_is_valid", "receiver_is_valid",
      "start_time_is_valid", "file_period_is_valid", "data_freq_is_valid",
      "data_type_is_valid", "format_is_valid", "compression_is_valid" }

InitValidate ==
    /\ COUNTRY_CODES = "None"
    /\ writes = 0
    /\ fname = <<>>
    /\ pc = "call"
    /\ evaluated = <<>>
    /\ result = "None"
    /\ got = NoField
    /\ call \in [fn : Functions, s : Args]
    /\ threads = <<>>

\* The call returns `out`, or raises it.
Finish(out) ==
    /\ result' = out
    /\ pc' = IF out \in {"True", "False"} THEN "returned" ELSE "raised"
    /\ UNCHANGED <<fname, evaluated, got, call, threads>>

Call_has_valid_characters ==
    /\ pc = "call" /\ call.fn = "has_valid_characters"
    /\ Finish(has_valid_characters(call.s))
    /\ UNCHANGED <<COUNTRY_CODES, writes>>

Call_name_is_valid ==
    /\ pc = "call" /\ call.fn = "name_is_valid"
    /\ LET loads == NameReachesCountry(call.s)
           codes == IF loads THEN load_country_codes(COUNTRY_CODES) ELSE COUNTRY_CODES
       IN  /\ COUNTRY_CODES' = codes
           /\ writes' = IF loads /\ MustLoad(COUNTRY_CODES) THEN writes + 1 ELSE writes
           /\ Finish(name_is_valid(call.s, codes))

Call_receiver_is_valid ==
    /\ pc = "call" /\ call.fn = "receiver_is_valid"
    /\ Finish(receiver_is_valid(call.s))
    /\ UNCHANGED <<COUNTRY_CODES, writes>>

Call_start_time_is_valid ==
    /\ pc = "call" /\ call.fn = "start_time_is_valid"
    /\ Finish(start_time_is_valid(call.s))
    /\ UNCHANGED <<COUNTRY_CODES, writes>>

Call_file_period_is_valid ==
    /\ pc = "call" /\ call.fn = "file_period_is_valid"
    /\ Finish(file_period_is_valid(call.s))
    /\ UNCHANGED <<COUNTRY_CODES, writes>>

Call_data_freq_is_valid ==
    /\ pc = "call" /\ call.fn = "data_freq_is_valid"
    /\ Finish(data_freq_is_valid(call.s))
    /\ UNCHANGED <<COUNTRY_CODES, writes>>

Call_data_type_is_valid ==
    /\ pc = "call" /\ call.fn = "data_type_is_valid"
    /\ Finish(data_type_is_valid(call.s))
    /\ UNCHANGED <<COUNTRY_CODES, writes>>

Call_format_is_valid ==
    /\ pc = "call" /\ call.fn = "format_is_valid"
    /\ Finish(format_is_valid(call.s))
    /\ UNCHANGED <<COUNTRY_CODES, writes>>

Call_compression_is_valid ==
    /\ pc = "call" /\ call.fn = "compression_is_valid"
    /\ Finish(compression_is_valid(call.s))
    /\ UNCHANGED <<COUNTRY_CODES, writes>>

NextValidate ==
    \/ Call_has_valid_characters
    \/ Call_name_is_valid
    \/ Call_receiver_is_valid
    \/ Call_start_time_is_valid
    \/ Call_file_period_is_valid
    \/ Call_data_freq_is_valid
    \/ Call_data_type_is_valid
    \/ Call_format_is_valid
    \/ Call_compression_is_valid

SpecValidate == InitValidate /\ [][NextValidate]_vars

----------------------------------------------------------------------------
(* Threads that call name_is_valid at the same time.  A thread may be      *)
(* suspended between the test `COUNTRY_CODES is None` and the assignment   *)
(* that follows the reading of the file.                                   *)

NumThreads == 2

Threads == 1..NumThreads

ThreadNames ==
    { <<"A","L","G","O","0","0","C","A","N">>,
      <<"A","L","G","O","0","0","X","X","X">>,
      <<"A","L","G","O","X","0","C","A","N">>,
      <<"A","L","G","O">> }

InitThreads ==
    /\ COUNTRY_CODES = "None"
    /\ writes = 0
    /\ fname = <<>>
    /\ pc = "threads"
    /\ evaluated = <<>>
    /\ result = "None"
    /\ got = NoField
    /\ call = NoCall
    /\ threads \in [Threads -> [pc : {"name_is_valid"}, s : ThreadNames, ret : {"None"}]]

\* name_is_valid up to the call of load_country_codes
T_name_is_valid(t) ==
    /\ threads[t].pc = "name_is_valid"
    /\ threads' = [threads EXCEPT ![t] =
           IF NameReachesCountry(threads[t].s)
           THEN [@ EXCEPT !.pc = "load_country_codes"]
           ELSE [@ EXCEPT !.pc = "returned", !.ret = "False"]]
    /\ UNCHANGED <<COUNTRY_CODES, writes, fname, pc, evaluated, result, got, call>>

\* if COUNTRY_CODES is None:
T_test(t) ==
    /\ threads[t].pc = "load_country_codes"
    /\ threads' = [threads EXCEPT ![t].pc =
           IF MustLoad(COUNTRY_CODES) THEN "read" ELSE "return"]
    /\ UNCHANGED <<COUNTRY_CODES, writes, fname, pc, evaluated, result, got, call>>

\* COUNTRY_CODES = fsock.read().splitlines()
T_assign(t) ==
    /\ threads[t].pc = "read"
    /\ COUNTRY_CODES' = ISO_3166_1_alpha_3
    /\ writes' = writes + 1
    /\ threads' = [threads EXCEPT ![t].pc = "return"]
    /\ UNCHANGED <<fname, pc, evaluated, result, got, call>>

\* return COUNTRY_CODES, and the rest of name_is_valid
T_return(t) ==
    /\ threads[t].pc = "return"
    /\ threads' = [threads EXCEPT ![t] =
           [@ EXCEPT !.pc = "returned",
                     !.ret = name_is_valid(threads[t].s, COUNTRY_CODES)]]
    /\ UNCHANGED <<COUNTRY_CODES, writes, fname, pc, evaluated, result, got, call>>

NextThreads ==
    \E t \in Threads :
        \/ T_name_is_valid(t)
        \/ T_test(t)
        \/ T_assign(t)
        \/ T_return(t)

SpecThreads == InitThreads /\ [][NextThreads]_vars

----------------------------------------------------------------------------
(* Properties.  Under Spec, is_valid has ended when Ended holds.           *)

Ended == pc \in {"returned", "raised"}

AsciiDigits == {"0","1","2","3","4","5","6","7","8","9"}

\* C1: for every file name, is_valid() returns a boolean and lets no
\* exception reach its caller, and a file name shorter than the fixed width
\* of the layout (the 38 characters up to the end of the format field) gets
\* the verdict False.
C1_AlwaysBooleanVerdict ==
    Ended =>
        /\ pc = "returned"
        /\ result \in {"True", "False"}
        /\ Len(fname) < Field["format_"][2] => result = "False"

\* f is 'ALGO00CAN_R_20121601000_' + P + '_' + F + '_' + T + '.rnx' with P
\* two ASCII digits and a file period unit, F two ASCII digits and a data
\* frequency unit, T one of the eight observation codes.
IsLayoutName(f) ==
    /\ Len(f) = 38
    /\ SubSeq(f, 1, 24) = Station
    /\ f[25] \in AsciiDigits /\ f[26] \in AsciiDigits
    /\ f[27] \in {"M", "H", "D", "Y", "U"}
    /\ f[28] = "_"
    /\ f[29] \in AsciiDigits /\ f[30] \in AsciiDigits
    /\ f[31] \in {"C", "Z", "S", "M", "H", "D", "U"}
    /\ f[32] = "_"
    /\ f[33] \in {"G", "R", "E", "J", "C", "I", "S", "M"} /\ f[34] = "O"
    /\ SubSeq(f, 35, 38) = <<".", "r", "n", "x">>

\* C2: with CAN in the country-code table, is_valid() returns True for every
\* file name 'ALGO00CAN_R_20121601000_P_F_T.rnx' whose P follows the file
\* period rule, whose F follows the data frequency rule and whose T is an
\* observation code; the five exemplars are among them.
C2_LayoutNamesAccepted ==
    /\ \A e \in Exemplars : IsLayoutName(e)
    /\ (IsLayoutName(fname) /\ InList(<<"C","A","N">>, ISO_3166_1_alpha_3)) =>
          /\ pc # "raised"
          /\ pc = "returned" => result = "True"

C2_Witness ==
    /\ pc = "returned"
    /\ fname = Rnx(<<"1","5","M">>, <<"0","1","S">>, <<"G","O">>)
    /\ result = "True"

\* C3, as claimed: reading a field of a file name shorter than the end
\* offset of the field fails with an out-of-range error.
C3_ShortReadRaises ==
    (got.field # "None" /\ Len(fname) < Field[got.field][2]) =>
        got.raised = "IndexError"

\* C3, amended: reading a field of a file name shorter than the end offset of
\* the field raises nothing and returns the characters of the file name from
\* the start offset of the field on, none when the name ends before it.
C3_ShortReadTruncates ==
    (got.field # "None" /\ Len(fname) < Field[got.field][2]) =>
        LET beg == Field[got.field][1]
            n   == IF Len(fname) > beg THEN Len(fname) - beg ELSE 0
        IN  /\ got.raised = "None"
            /\ Len(got.value) = n
            /\ \A i \in 1..n : got.value[i] = fname[beg + i]

C3_Witness ==
    /\ got.field = "start_time"
    /\ Len(fname) = 15
    /\ got.value = <<"2", "0", "1">>

\* f = d + b for a directory prefix d
SplitsAt(f, d) == Len(f) >= Len(d) /\ SubSeq(f, 1, Len(d)) = d

\* C4: the fields and the verdict of ObservationFile(d + f), d a directory
\* prefix ending in '/', are those of ObservationFile(f).
C4_BaseNameOnly ==
    \A d \in Dirs :
        SplitsAt(fname, d) =>
            LET f == SubSeq(fname, Len(d) + 1, Len(fname))
            IN  /\ got.field # "None" => got.value = Field__get__(f, got.field)
                /\ Ended => result = is_valid(f, COUNTRY_CODES)

\* C7, as claimed: when the character-set check and the predicates of the
\* seven fields other than format pass, is_valid() returns True whatever
\* format_is_valid gives.
OthersPass(f) ==
    \A k \in ConjunctNames \ {"format_"} :
        Operand(k, f, ISO_3166_1_alpha_3) = "True"

C7_FormatIgnored ==
    (Ended /\ OthersPass(fname)) => result = "True"

\* C7, amended: the predicate of the format field takes part in the verdict:
\* when the character-set check and the predicates of the seven other fields
\* pass, is_valid() returns what format_is_valid returns on the slice
\* [35:38], so a format of fewer than 3 characters is rejected.
C7_FormatDecides ==
    (Ended /\ OthersPass(fname)) =>
        /\ pc = "returned"
        /\ result = format_is_valid(PySlice(fname, 35, 38))
        /\ result = "True" <=> Len(fname) >= 38

C7_Witness ==
    /\ pc = "returned"
    /\ OthersPass(fname)
    /\ Len(fname) = 37
    /\ result = "False"

FixedOrder ==
    << "has_valid_characters", "name", "receiver", "start_time",
       "file_period", "data_freq", "data_type", "format_", "compression" >>

\* C9: is_valid() evaluates its checks in the order character set, name,
\* receiver, start_time, file_period, data_freq, data_type, format,
\* compression and stops at the first that fails: every check before the
\* last one evaluated has passed, nothing is evaluated after a check that
\* did not pass, the country-code table is written only if the name check
\* was evaluated, and the verdict is True only if compression was evaluated
\* and passed.
C9_FixedOrderShortCircuit ==
    LET n == Len(evaluated)
    IN  /\ n <= Len(FixedOrder)
        /\ \A i \in 1..n : evaluated[i][1] = FixedOrder[i]
        /\ \A i \in 1..(n - 1) : evaluated[i][2] = "True"
        /\ (n > 0 /\ evaluated[n][2] # "True") => (Ended /\ result = evaluated[n][2])
        /\ (pc \in ConjunctNames) => (pc = FixedOrder[n + 1] /\ result = "None")
        /\ writes > 0 => (n >= 2 /\ evaluated[2][1] = "name")
        /\ result = "True" =>
              (n = Len(FixedOrder) /\ evaluated[n] = <<"compression", "True">>)
        /\ pc = "returned" => (n > 0 /\ result = evaluated[n][2])

C9_Witness ==
    /\ pc = "returned"
    /\ result = "False"
    /\ Len(evaluated) = 5
    /\ evaluated[5] = <<"file_period", "False">>
    /\ writes = 1

\* C10: for each compression code c of gz, bz2, zip and each exemplar e,
\* ObservationFile(e + '.' + c).is_valid() returns True.
C10_CompressedAccepted ==
    (Ended /\ \E e \in Exemplars, i \in 1..Len(COMPRESSION_EXTENSIONS_ALLOWED) :
                  fname = e \o <<".">> \o COMPRESSION_EXTENSIONS_ALLOWED[i])
        => result = "True"

\* C11: a file name that is_valid() accepts has '_' at the indices 9, 11, 23,
\* 27 and 31, '.' at index 34 and, when its compression field is not empty,
\* '.' at index 38 (0-based indices; a sequence is indexed from 1).
C11_SeparatorsCanonical ==
    (pc = "returned" /\ result = "True") =>
        /\ Len(fname) >= 38
        /\ \A i \in {9, 11, 23, 27, 31} : fname[i + 1] = "_"
        /\ fname[34 + 1] = "."
        /\ Len(fname) > 39 => fname[38 + 1] = "."

----------------------------------------------------------------------------
(* Properties of the direct calls, under SpecValidate *)

\* The body of a file name, the part of its base name before the first '.',
\* and its extension, the part after that '.'.
BodyOf(s) ==
    LET b == PathName(s)
        i == Find(b, ".")
    IN  IF i = 0 THEN b ELSE SubSeq(b, 1, i - 1)

ExtensionOf(s) ==
    LET b == PathName(s)
        i == Find(b, ".")
    IN  IF i = 0 THEN <<>> ELSE SubSeq(b, i + 1, Len(b))

\* C5: has_valid_characters(f) returns False when the body of f has a
\* character outside [A-Z0-9_] or its extension one outside [a-z.], and
\* True when both parts hold allowed characters only.
C5_CharacterSets ==
    (call.fn = "has_valid_characters" /\ pc # "call") =>
        LET good == /\ CharSet(BodyOf(call.s)) \subseteq FILENAME_CHARACTERS
                    /\ CharSet(ExtensionOf(call.s)) \subseteq EXTENSION_CHARACTERS
        IN  pc = "returned" /\ result = Bool(good)

\* C6: file_period_is_valid(s) returns True exactly when s has 3 characters,
\* the first two ASCII digits and the third one of M, H, D, Y, U.
C6_AsciiDigitsOnly ==
    (call.fn = "file_period_is_valid" /\ pc # "call") =>
        /\ pc = "returned"
        /\ result = Bool(/\ Len(call.s) = 3
                         /\ call.s[1] \in AsciiDigits
                         /\ call.s[2] \in AsciiDigits
                         /\ call.s[3] \in {"M", "H", "D", "Y", "U"})

----------------------------------------------------------------------------
(* Properties of the concurrent callers, under SpecThreads *)

\* C8: COUNTRY_CODES is written exactly once, also when several threads call
\* load_country_codes() before any load has completed: it is unwritten and
\* None, or written once and loaded.
C8_WrittenOnce ==
    \/ writes = 0 /\ COUNTRY_CODES = "None"
    \/ writes = 1 /\ COUNTRY_CODES = ISO_3166_1_alpha_3

====
